---------------------------- MODULE Spec2Model ----------------------------
(***************************************************************************)
(* A model of mchp-pack-downloader.py: the DevicePack name parser and its  *)
(* whitelist filter, the PacksHtmlParser start-tag handler, and the main   *)
(* script (fetch, feed, fold into latest_packs, print).                    *)
(*                                                                         *)
(* Python strings are sequences of one-character strings, so that split,   *)
(* rsplit, lower, startswith, endswith and int are computed character by   *)
(* character, as the interpreter computes them.                            *)
(***************************************************************************)
EXTENDS Integers, Sequences, FiniteSets, TLC

VARIABLES
    pc,            \* position of the main script
    html,          \* the start tags of the fetched page, in document order
    pos,           \* index of the next start tag HTMLParser.feed delivers
    links,         \* PacksHtmlParser.links
    pack_links,    \* the main script's pack_links
    latest_packs,  \* the main script's dict, as its items in insertion order
    i,             \* index of the running for loop (fold, then print)
    output,        \* the lines printed so far
    failure,       \* the uncaught exception that ended the run, or "none"
    fetches,       \* number of urlopen calls made
    built,         \* SpecParse: the results of the DevicePack(...) calls made
    verdicts       \* SpecFilter: the keep_this_pack() calls made and their results

vars == <<pc, html, pos, links, pack_links, latest_packs, i, output, failure,
          fetches, built, verdicts>>

runVars == <<pc, html, pos, links, pack_links, latest_packs, i, output, failure,
             fetches>>

----------------------------------------------------------------------------
(* Bounds of the model.                                                    *)

\* the number of start tags in a fetched page
MaxTags == 3

\* the number of DevicePack constructions in a run of SpecParse
MaxPacks == 2

\* the length of the generated middle part of a family name in SpecFilter
MaxMid == 1

----------------------------------------------------------------------------
(* Python str and int.                                                     *)

UPPER == <<"A", "B", "C", "D", "E", "F", "G", "H", "I", "J", "K", "L", "M",
           "N", "O", "P", "Q", "R", "S", "T", "U", "V", "W", "X", "Y", "Z">>
LOWER == <<"a", "b", "c", "d", "e", "f", "g", "h", "i", "j", "k", "l", "m",
           "n", "o", "p", "q", "r", "s", "t", "u", "v", "w", "x", "y", "z">>
DIGITS == <<"0", "1", "2", "3", "4", "5", "6", "7", "8", "9">>

\* Python's None, as an attribute value: distinct from every string
NoneValue == <<"None">>

\* the truth value Python gives an attribute value: None and '' are false
Truthy(v) == v # NoneValue /\ v # <<>>

\* the lower-case letter of each upper-case letter
LowerOf ==
    [c \in {UPPER[k] : k \in 1..Len(UPPER)} |->
        LOWER[CHOOSE k \in 1..Len(UPPER) : UPPER[k] = c]]

LowerChar(c) == IF c \in DOMAIN LowerOf THEN LowerOf[c] ELSE c

\* str.lower()
Lower(s) == [k \in 1..Len(s) |-> LowerChar(s[k])]

\* str.startswith(p)
StartsWith(s, p) == Len(p) <= Len(s) /\ SubSeq(s, 1, Len(p)) = p

\* str.endswith(p)
EndsWith(s, p) ==
    Len(p) <= Len(s) /\ SubSeq(s, Len(s) - Len(p) + 1, Len(s)) = p

\* str.split(sep) for a one-character sep: every sep cuts, '' gives ['']
RECURSIVE SplitFrom(_, _, _, _)
SplitFrom(s, sep, k, cur) ==
    IF k > Len(s) THEN <<cur>>
    ELSE IF s[k] = sep THEN <<cur>> \o SplitFrom(s, sep, k + 1, <<>>)
    ELSE SplitFrom(s, sep, k + 1, Append(cur, s[k]))

Split(s, sep) == SplitFrom(s, sep, 1, <<>>)

\* str.rsplit(sep, 1)[-1]: what follows the last sep, the whole string without one
RSplitLast(s, sep) ==
    LET cuts == {k \in 1..Len(s) : s[k] = sep}
    IN  IF cuts = {} THEN s
        ELSE LET last == CHOOSE k \in cuts : \A j \in cuts : j <= k
             IN  SubSeq(s, last + 1, Len(s))

\* sep.join(parts)
RECURSIVE Join(_, _)
Join(parts, sep) ==
    IF Len(parts) = 0 THEN <<>>
    ELSE IF Len(parts) = 1 THEN parts[1]
    ELSE parts[1] \o <<sep>> \o Join(Tail(parts), sep)

IsDigit(c) == \E k \in 1..Len(DIGITS) : DIGITS[k] = c

DigitVal(c) == (CHOOSE k \in 1..Len(DIGITS) : DIGITS[k] = c) - 1

RECURSIVE DigitsVal(_)
DigitsVal(s) ==
    IF Len(s) = 0 THEN 0
    ELSE 10 * DigitsVal(SubSeq(s, 1, Len(s) - 1)) + DigitVal(s[Len(s)])

\* str.strip() of blanks, as int() applies it to its argument
RECURSIVE Strip(_)
Strip(s) ==
    IF Len(s) > 0 /\ s[1] = " " THEN Strip(Tail(s))
    ELSE IF Len(s) > 0 /\ s[Len(s)] = " " THEN Strip(SubSeq(s, 1, Len(s) - 1))
    ELSE s

\* int(s): blanks stripped, an optional sign, then one or more decimal digits;
\* anything else raises ValueError. (Digit-group underscores and non-ASCII
\* digits, which int() also reads, are outside the alphabet of the inputs.)
IntParse(s) ==
    LET t      == Strip(s)
        signed == Len(t) > 0 /\ t[1] \in {"-", "+"}
        body   == IF signed THEN Tail(t) ELSE t
        good   == Len(body) > 0 /\ \A k \in 1..Len(body) : IsDigit(body[k])
    IN  IF ~good THEN [ok |-> FALSE, val |-> 0]
        ELSE [ok |-> TRUE,
              val |-> IF signed /\ t[1] = "-" THEN 0 - DigitsVal(body)
                      ELSE DigitsVal(body)]

\* 100_000, the weight of the minor part; the weight of the major part,
\* 10_000_000_000, is Limb * Limb
Limb == 100000

\* A Python int x, which can exceed 32 bits here, is held exactly as
\* <<hi, mid, lo>> with x = hi * Limb^2 + mid * Limb + lo, 0 <= mid, lo < Limb.
\* VersionValue(a, b, c) is 10_000_000_000 * a + 100_000 * b + c.
VersionValue(a, b, c) ==
    LET m == b + (c \div Limb)
    IN  <<a + (m \div Limb), m % Limb, c % Limb>>

\* x > y on Python ints held as above
IntGT(x, y) ==
    \/ x[1] > y[1]
    \/ x[1] = y[1] /\ x[2] > y[2]
    \/ x[1] = y[1] /\ x[2] = y[2] /\ x[3] > y[3]

----------------------------------------------------------------------------
(* class DevicePack                                                        *)

DOT == "."
SLASH == "/"
PACKS_EXTENSION == <<".", "a", "t", "p", "a", "c", "k">>
MICROCHIP == <<"M", "i", "c", "r", "o", "c", "h", "i", "p">>

\* the outcome of a constructor call that raised ValueError: no object
Raised == [ok |-> FALSE]

\* DevicePack.__init__(path): the object built, or Raised
DevicePack(path) ==
    LET name  == RSplitLast(path, SLASH)
        parts == Split(name, DOT)
    IN  IF Len(parts) # 6 THEN Raised
        ELSE LET a == IntParse(parts[3])
                 b == IntParse(parts[4])
                 c == IntParse(parts[5])
             IN  IF ~(a.ok /\ b.ok /\ c.ok) THEN Raised
                 ELSE [ok           |-> TRUE,
                       path         |-> path,
                       manufacturer |-> parts[1],
                       family       |-> parts[2],
                       version_str  |-> Join(<<parts[3], parts[4], parts[5]>>, DOT),
                       version      |-> VersionValue(a.val, b.val, c.val),
                       extension    |-> parts[6]]

get_manufacturer(pack) == pack.manufacturer
get_family(pack) == pack.family
get_version(pack) == pack.version
get_version_string(pack) == pack.version_str

P_SAM == <<"s", "a", "m">>
P_PIC32C == <<"p", "i", "c", "3", "2", "c">>
P_PIC32W == <<"p", "i", "c", "3", "2", "w">>
P_CEC == <<"c", "e", "c">>
P_DEC == <<"d", "e", "c">>
P_MEC == <<"m", "e", "c">>
P_WRL == <<"w", "r", "l">>
S_TP == <<"_", "t", "p">>

\* DevicePack.keep_this_pack(), with a tool-pack rule that looks for the marker
\* at the start of the family instead of its end
keep_this_pack_tp_prefix(pack) ==
    IF get_manufacturer(pack) # MICROCHIP THEN FALSE
    ELSE LET family == Lower(get_family(pack))
         IN  IF StartsWith(family, S_TP) THEN FALSE
             ELSE IF StartsWith(family, P_SAM) \/ StartsWith(family, P_PIC32C) THEN TRUE
             ELSE IF StartsWith(family, P_PIC32W) THEN TRUE
             ELSE IF StartsWith(family, P_CEC) \/ StartsWith(family, P_DEC)
                     \/ StartsWith(family, P_MEC) THEN TRUE
             ELSE IF StartsWith(family, P_WRL) THEN TRUE
             ELSE FALSE

\* DevicePack.keep_this_pack(): the returns in the order the method makes them
keep_this_pack(pack) ==
    IF get_manufacturer(pack) # MICROCHIP THEN FALSE
    ELSE LET family == Lower(get_family(pack))
         IN  IF EndsWith(family, S_TP) THEN FALSE
             ELSE IF StartsWith(family, P_SAM) \/ StartsWith(family, P_PIC32C) THEN TRUE
             ELSE IF StartsWith(family, P_PIC32W) THEN TRUE
             ELSE IF StartsWith(family, P_CEC) \/ StartsWith(family, P_DEC)
                     \/ StartsWith(family, P_MEC) THEN TRUE
             ELSE IF StartsWith(family, P_WRL) THEN TRUE
             ELSE FALSE

----------------------------------------------------------------------------
(* The pages the fetch can return.                                         *)

SAML10_DFP == <<"S", "A", "M", "L", "1", "0", "_", "D", "F", "P">>
PIC32WX_DFP == <<"P", "I", "C", "3", "2", "W", "X", "_", "D", "F", "P">>
ATtool_TP == <<"A", "T", "t", "o", "o", "l", "_", "T", "P">>
ARM == <<"A", "R", "M">>
ATPACK == <<"a", "t", "p", "a", "c", "k">>
INDEX_HTML == <<"i", "n", "d", "e", "x", ".", "h", "t", "m", "l">>
DL_DIR == <<"d", "l", "/">>

\* the file name Manufacturer.Family.X.Y.Z.atpack
PackName(man, fam, x, y, z) == Join(<<man, fam, x, y, z, ATPACK>>, DOT)

N_SAM_3_5_87 == PackName(MICROCHIP, SAML10_DFP, <<"3">>, <<"5">>, <<"8", "7">>)
N_SAM_3_4_0 == PackName(MICROCHIP, SAML10_DFP, <<"3">>, <<"4">>, <<"0">>)
N_SAM_3_5_87_DL == DL_DIR \o N_SAM_3_5_87
N_PIC32W == PackName(MICROCHIP, PIC32WX_DFP, <<"2">>, <<"1">>, <<"0">>)
N_TOOL == PackName(MICROCHIP, ATtool_TP, <<"1">>, <<"0">>, <<"0">>)
N_ARM_SAM == PackName(ARM, SAML10_DFP, <<"9">>, <<"0">>, <<"0">>)
N_FEWFIELDS == Join(<<MICROCHIP, SAML10_DFP, ATPACK>>, DOT)
N_NONNUM == PackName(MICROCHIP, SAML10_DFP, <<"3">>, <<"x">>, <<"0">>)

Href(v) == <<"href", v>>
Download == <<"download", <<>>>>
StartTag(t, attrs) == [tag |-> t, attrs |-> attrs]

\* the start tags a page is made of: (name, value) pairs as HTMLParser hands
\* them to handle_starttag, repeated attributes included
TagPool ==
    { StartTag("a", <<Href(N_SAM_3_5_87), Download>>),
      StartTag("a", <<Href(N_SAM_3_4_0), Download>>),
      StartTag("a", <<Download, Href(N_SAM_3_5_87_DL)>>),
      StartTag("a", <<Href(N_PIC32W), Download>>),
      StartTag("a", <<Href(N_TOOL), Download>>),
      StartTag("a", <<Href(N_ARM_SAM), Download>>),
      StartTag("a", <<Href(N_FEWFIELDS), Download>>),
      StartTag("a", <<Href(N_NONNUM), Download>>),
      StartTag("a", <<Href(N_PIC32W)>>),
      StartTag("a", <<Href(INDEX_HTML), Download>>),
      StartTag("a", <<Href(NoneValue), Download>>),
      StartTag("a", <<Href(N_SAM_3_4_0), Href(INDEX_HTML), Download>>),
      StartTag("a", <<Href(N_SAM_3_4_0), Href(N_PIC32W), Download>>),
      StartTag("div", <<Href(N_SAM_3_5_87), Download>>) }

Listings == UNION { [1..n -> TagPool] : n \in 0..MaxTags }

----------------------------------------------------------------------------
(* class PacksHtmlParser                                                   *)

\* the for loop of handle_starttag over attrs, from (href, download)
RECURSIVE ScanAttrs(_, _, _)
ScanAttrs(attrs, href, download) ==
    IF Len(attrs) = 0 THEN [href |-> href, download |-> download]
    ELSE LET attr == Head(attrs)
         IN  IF attr[1] = "download"
             THEN ScanAttrs(Tail(attrs), href, TRUE)
             ELSE IF attr[1] = "href" /\ Truthy(attr[2])
                     /\ EndsWith(attr[2], PACKS_EXTENSION)
             THEN ScanAttrs(Tail(attrs), attr[2], download)
             ELSE ScanAttrs(Tail(attrs), href, download)

\* handle_starttag with every download link kept, wanted or not
HandleStartTagKeepAll ==
    /\ pc = "feed"
    /\ pos <= Len(html)
    /\ LET scan == ScanAttrs(html[pos].attrs, <<>>, FALSE)
           pack == DevicePack(scan.href)
       IN  IF html[pos].tag # "a" \/ ~scan.download
           THEN /\ pos' = pos + 1
                /\ UNCHANGED <<pc, links, failure>>
           ELSE IF ~pack.ok
           THEN /\ pc' = "failed"
                /\ failure' = "ValueError"
                /\ UNCHANGED <<pos, links>>
           ELSE /\ links' = Append(links, pack)
                /\ pos' = pos + 1
                /\ UNCHANGED <<pc, failure>>
    /\ UNCHANGED <<html, pack_links, latest_packs, i, output, fetches, built, verdicts>>

\* HTMLParser.feed delivers the next start tag to handle_starttag; the
\* ValueError of DevicePack(href) is caught nowhere and ends the run
HandleStartTag ==
    /\ pc = "feed"
    /\ pos <= Len(html)
    /\ LET scan == ScanAttrs(html[pos].attrs, <<>>, FALSE)
           pack == DevicePack(scan.href)
       IN  IF html[pos].tag # "a" \/ ~scan.download
           THEN /\ pos' = pos + 1
                /\ UNCHANGED <<pc, links, failure>>
           ELSE IF ~pack.ok
           THEN /\ pc' = "failed"
                /\ failure' = "ValueError"
                /\ UNCHANGED <<pos, links>>
           ELSE /\ links' = IF keep_this_pack(pack) THEN Append(links, pack) ELSE links
                /\ pos' = pos + 1
                /\ UNCHANGED <<pc, failure>>
    /\ UNCHANGED <<html, pack_links, latest_packs, i, output, fetches, built, verdicts>>

----------------------------------------------------------------------------
(* The main script.                                                        *)

\* urlopen fails and the script fetches again
FetchFailRetry ==
    /\ pc = "start"
    /\ fetches' = fetches + 1
    /\ UNCHANGED <<pc, html, pos, links, pack_links, latest_packs, i, output,
                   failure, built, verdicts>>

\* urlopen, read or decode raises: the exception is caught nowhere
FetchFail ==
    /\ pc = "start"
    /\ fetches' = fetches + 1
    /\ pc' = "failed"
    /\ failure' = "FetchError"
    /\ UNCHANGED <<html, pos, links, pack_links, latest_packs, i, output, built,
                   verdicts>>

\* urlopen, read and decode succeed; the parser is created and fed
Fetch ==
    /\ pc = "start"
    /\ fetches' = fetches + 1
    /\ \E h \in Listings : html' = h
    /\ pos' = 1
    /\ pc' = "feed"
    /\ UNCHANGED <<links, pack_links, latest_packs, i, output, failure, built,
                   verdicts>>

\* feed and close return; pack_links = parser.get_pack_links()
Close ==
    /\ pc = "feed"
    /\ pos > Len(html)
    /\ pack_links' = links
    /\ i' = 1
    /\ pc' = "fold"
    /\ UNCHANGED <<html, pos, links, latest_packs, output, failure, fetches, built,
                   verdicts>>

\* family in latest_packs
HasKey(d, k) == \E n \in 1..Len(d) : d[n].key = k

\* latest_packs[family]
Lookup(d, k) == d[CHOOSE n \in 1..Len(d) : d[n].key = k].value

\* latest_packs[family] = pack: a present key keeps its place, a new one goes last
Store(d, k, v) ==
    IF HasKey(d, k)
    THEN [n \in 1..Len(d) |-> IF d[n].key = k THEN [key |-> k, value |-> v] ELSE d[n]]
    ELSE Append(d, [key |-> k, value |-> v])

\* the body of the fold loop with >= in place of >
FoldPackOrEqual(d, pack) ==
    LET family == get_family(pack)
    IN  IF HasKey(d, family)
        THEN IF ~IntGT(get_version(Lookup(d, family)), get_version(pack))
             THEN Store(d, family, pack)
             ELSE d
        ELSE Store(d, family, pack)

\* the body of the fold loop: latest_packs after one pack
FoldPack(d, pack) ==
    LET family == get_family(pack)
    IN  IF HasKey(d, family)
        THEN IF IntGT(get_version(pack), get_version(Lookup(d, family)))
             THEN Store(d, family, pack)
             ELSE d
        ELSE Store(d, family, pack)

\* one turn of: for pack in pack_links
FoldStep ==
    /\ pc = "fold"
    /\ i <= Len(pack_links)
    /\ latest_packs' = FoldPack(latest_packs, pack_links[i])
    /\ i' = i + 1
    /\ UNCHANGED <<pc, html, pos, links, pack_links, output, failure, fetches,
                   built, verdicts>>

\* the fold loop ends
FoldDone ==
    /\ pc = "fold"
    /\ i > Len(pack_links)
    /\ i' = 1
    /\ pc' = "print"
    /\ UNCHANGED <<html, pos, links, pack_links, latest_packs, output, failure,
                   fetches, built, verdicts>>

LATEST_VERSION_OF_PACK ==
    <<"L", "a", "t", "e", "s", "t", " ", "v", "e", "r", "s", "i", "o", "n", " ",
      "o", "f", " ", "p", "a", "c", "k", " ">>
IS == <<" ", "i", "s", " ">>

\* f'Latest version of pack {family} is {pack.get_version_string()}'
Line(family, pack) ==
    LATEST_VERSION_OF_PACK \o family \o IS \o get_version_string(pack)

\* the items of latest_packs in reverse order
ItemsReversed(d) == [n \in 1..Len(d) |-> d[Len(d) + 1 - n]]

\* latest_packs.items(): insertion order
Items(d) == d

\* one turn of: for family, pack in latest_packs.items()
PrintStep ==
    /\ pc = "print"
    /\ i <= Len(latest_packs)
    /\ LET item == Items(latest_packs)[i]
       IN  output' = Append(output, Line(item.key, item.value))
    /\ i' = i + 1
    /\ UNCHANGED <<pc, html, pos, links, pack_links, latest_packs, failure, fetches,
                   built, verdicts>>

\* the print loop ends and the script exits
Finish ==
    /\ pc = "print"
    /\ i > Len(latest_packs)
    /\ pc' = "done"
    /\ UNCHANGED <<html, pos, links, pack_links, latest_packs, i, output, failure,
                   fetches, built, verdicts>>

Init ==
    /\ pc = "start"
    /\ html = <<>>
    /\ pos = 1
    /\ links = <<>>
    /\ pack_links = <<>>
    /\ latest_packs = <<>>
    /\ i = 1
    /\ output = <<>>
    /\ failure = "none"
    /\ fetches = 0
    /\ built = <<>>
    /\ verdicts = <<>>

Next ==
    \/ Fetch
    \/ FetchFail
    \/ HandleStartTag
    \/ Close
    \/ FoldStep
    \/ FoldDone
    \/ PrintStep
    \/ Finish

Spec == Init /\ [][Next]_vars

----------------------------------------------------------------------------
(* DevicePack(...) on its own: the names a link can carry.                 *)

\* the texts a version field is drawn from
VerFields ==
    { <<"0">>, <<"1">>, <<"9", "9", "9", "9", "9">>,
      <<"1", "0", "0", "0", "0", "0">>, <<"-", "1">>, <<"x">> }

\* six-field names with every choice of version fields, and names with
\* another number of fields
NamePool ==
    { PackName(MICROCHIP, SAML10_DFP, x, y, z) : x, y, z \in VerFields }
    \cup { <<>>,
           N_FEWFIELDS,
           DL_DIR \o N_SAM_3_4_0,
           Join(<<MICROCHIP, SAML10_DFP, <<"1">>, <<"0">>, <<"0">>, <<"0">>, ATPACK>>, DOT),
           Join(<<MICROCHIP, SAML10_DFP, <<"1">>, <<"0">>, <<"0">>>>, DOT) }

\* one call DevicePack(path)
Construct ==
    /\ Len(built) < MaxPacks
    /\ \E p \in NamePool :
          built' = Append(built, [path |-> p, result |-> DevicePack(p)])
    /\ UNCHANGED <<runVars, verdicts>>

NextParse == Construct

SpecParse == Init /\ [][NextParse]_vars

----------------------------------------------------------------------------
(* keep_this_pack() on its own: the families a pack can name.              *)

MidChars == {"x", "_"}

Mids == UNION { [1..n -> MidChars] : n \in 0..MaxMid }

FamilyHeads ==
    { <<"S", "A", "M">>, <<"s", "a", "m">>, <<"P", "I", "C", "3", "2", "C">>,
      <<"P", "I", "C", "3", "2", "W">>, <<"p", "i", "c", "3", "2">>,
      <<"P", "I", "C", "3", "2", "M">>, <<"C", "E", "C">>, <<"D", "E", "C">>,
      <<"M", "E", "C">>, <<"W", "R", "L">>, <<"A", "T">>, <<"x", "S", "A", "M">>,
      <<>> }

FamilyTails ==
    { <<"_", "D", "F", "P">>, <<"_", "T", "P">>, <<"_", "t", "p">>,
      <<"_", "T", "P", "x">>, <<>> }

Families == { h \o m \o t : h \in FamilyHeads, m \in Mids, t \in FamilyTails }

Manufacturers == { MICROCHIP, Lower(MICROCHIP), ARM }

\* one call pack.keep_this_pack() on a pack built from a name
Filter ==
    /\ verdicts = <<>>
    /\ \E man \in Manufacturers, fam \in Families :
          LET pack == DevicePack(PackName(man, fam, <<"1">>, <<"0">>, <<"0">>))
          IN  verdicts' = <<[pack |-> pack, keep |-> keep_this_pack(pack)]>>
    /\ UNCHANGED <<runVars, built>>

NextFilter == Filter

SpecFilter == Init /\ [][NextFilter]_vars

----------------------------------------------------------------------------
(* What the properties speak of.                                           *)

\* the tag is an anchor carrying a download attribute
IsDownloadAnchor(t) ==
    t.tag = "a" /\ \E k \in 1..Len(t.attrs) : t.attrs[k][1] = "download"

\* the values of the tag's href attributes, in tag order
RECURSIVE HrefValues(_)
HrefValues(attrs) ==
    IF Len(attrs) = 0 THEN <<>>
    ELSE IF Head(attrs)[1] = "href" THEN <<Head(attrs)[2]>> \o HrefValues(Tail(attrs))
    ELSE HrefValues(Tail(attrs))

IsPackHref(v) == Truthy(v) /\ EndsWith(v, PACKS_EXTENSION)

\* the tag is a download anchor with an href ending in .atpack
IsPackLink(t) ==
    /\ IsDownloadAnchor(t)
    /\ \E k \in 1..Len(HrefValues(t.attrs)) : IsPackHref(HrefValues(t.attrs)[k])

\* the link handle_starttag takes from a tag
LinkOf(t) == ScanAttrs(t.attrs, <<>>, FALSE).href

\* the packs of the well-formed pack links of a page, in document order; with
\* onlyKept, those of them that keep_this_pack() accepts
RECURSIVE PacksWhere(_, _)
PacksWhere(tags, onlyKept) ==
    IF Len(tags) = 0 THEN <<>>
    ELSE LET t == Head(tags)
             pack == DevicePack(LinkOf(t))
         IN  IF IsPackLink(t) /\ pack.ok /\ (onlyKept => keep_this_pack(pack))
             THEN <<pack>> \o PacksWhere(Tail(tags), onlyKept)
             ELSE PacksWhere(Tail(tags), onlyKept)

\* the well-formed pack links of a page that the family filter accepts
AcceptedPacks(tags) == PacksWhere(tags, TRUE)

\* every well-formed pack link of a page, accepted or not
ListedPacks(tags) == PacksWhere(tags, FALSE)

\* the families of a sequence of packs, each once, in order of first occurrence
RECURSIVE FamiliesInOrder(_)
FamiliesInOrder(packs) ==
    IF Len(packs) = 0 THEN <<>>
    ELSE LET before == FamiliesInOrder(SubSeq(packs, 1, Len(packs) - 1))
             f      == packs[Len(packs)].family
         IN  IF \E k \in 1..Len(before) : before[k] = f THEN before
             ELSE Append(before, f)

\* among the first k packs, the first one of family f that none of that family exceeds
FirstGreatest(packs, k, f) ==
    packs[CHOOSE n \in 1..k :
            /\ packs[n].family = f
            /\ \A m \in 1..k : packs[m].family = f =>
                  /\ ~IntGT(packs[m].version, packs[n].version)
                  /\ packs[m].version = packs[n].version => n <= m]

\* how many packs of pack_links the fold loop has taken
Folded ==
    IF pc = "fold" THEN i - 1
    ELSE IF pc \in {"print", "done"} THEN Len(pack_links)
    ELSE 0

\* the elements of seq that are in S, in order
RECURSIVE SelectIn(_, _)
SelectIn(seq, S) ==
    IF Len(seq) = 0 THEN <<>>
    ELSE IF Head(seq) \in S THEN <<Head(seq)>> \o SelectIn(Tail(seq), S)
    ELSE SelectIn(Tail(seq), S)

\* the report of a page: one line per family of fams, with the version of the
\* first greatest accepted pack of the family
Report(fams, packs) ==
    [n \in 1..Len(fams) |-> Line(fams[n], FirstGreatest(packs, Len(packs), fams[n]))]

----------------------------------------------------------------------------
(* The properties.                                                         *)

\* C1: a pack link whose name is malformed is skipped where it is found: the
\* run never ends by the ValueError of DevicePack at such a link; it goes on
\* to the later tags.
C1_MalformedLinkSkipped ==
    ~(pc = "failed" /\ failure = "ValueError" /\ IsPackLink(html[pos]))

\* C2: the extractor returns exactly the hrefs of the anchors that carry a
\* download attribute and an href ending in .atpack, in document order, and no
\* other anchor makes it raise.
C2_ExtractsExactlyPackLinks ==
    /\ ~(pc = "failed" /\ failure = "ValueError" /\ ~IsPackLink(html[pos]))
    /\ pc \in {"fold", "print", "done"} =>
          LET want == SelectIn(html, {t \in TagPool : IsPackLink(t)})
          IN  /\ Len(pack_links) = Len(want)
              /\ \A n \in 1..Len(want) : pack_links[n].path = LinkOf(want[n])

\* C3: after any number of turns of the fold loop, latest_packs holds exactly
\* the families folded so far, each once, and maps each to the first of its
\* packs that none of the family exceeds in version (an equal one never
\* replaces it).
C3_LatestIsFirstGreatest ==
    LET k    == Folded
        fams == {pack_links[n].family : n \in 1..k}
    IN  /\ {latest_packs[n].key : n \in 1..Len(latest_packs)} = fams
        /\ Cardinality(fams) = Len(latest_packs)
        /\ \A n \in 1..Len(latest_packs) :
              latest_packs[n].value = FirstGreatest(pack_links, k, latest_packs[n].key)

\* a run has folded two packs of one family and one version with different paths
C3_Witness ==
    /\ pc = "done"
    /\ \E n, m \in 1..Len(pack_links) :
          /\ n < m
          /\ pack_links[n].family = pack_links[m].family
          /\ pack_links[n].version = pack_links[m].version
          /\ pack_links[n].path # pack_links[m].path
          /\ Lookup(latest_packs, pack_links[n].family) = pack_links[n]

\* C7 as amended: a run that ends normally has printed exactly one line per
\* family of the accepted links, Latest version of pack <family> is <version>
\* with the version of the family's latest accepted pack, in the order in
\* which the families first appear among the accepted links.
C7_OneLinePerFamilyInAcceptedOrder ==
    pc = "done" =>
        LET accepted == AcceptedPacks(html)
        IN  output = Report(FamiliesInOrder(accepted), accepted)

\* a run has ended after three accepted links of two families: two lines
C7_Witness ==
    /\ pc = "done"
    /\ Len(AcceptedPacks(html)) = 3
    /\ Len(output) = 2

\* C7 as stated: the lines come in the order in which the families first
\* appear in the listing.
C7_OneLinePerFamilyInListingOrder ==
    pc = "done" =>
        LET accepted == AcceptedPacks(html)
            kept     == {accepted[n].family : n \in 1..Len(accepted)}
        IN  output = Report(SelectIn(FamiliesInOrder(ListedPacks(html)), kept),
                            accepted)

\* C8: the page is fetched at most once; a failed fetch leaves the run failed
\* with nothing printed and nothing parsed; and a line is printed only after
\* the fetch and the whole extraction are over.
C8_FailedFetchPrintsNothing ==
    /\ fetches <= 1
    /\ failure = "FetchError" =>
          pc = "failed" /\ output = <<>> /\ html = <<>> /\ links = <<>>
    /\ output # <<>> =>
          pc \in {"print", "done"} /\ pos > Len(html) /\ failure = "none"

\* the one fetch has failed
C8_Witness ==
    pc = "failed" /\ failure = "FetchError" /\ fetches = 1

\* C9: every extracted link is the last href value of a tag already handled
\* that carries a download attribute.
C9_LastHrefDecides ==
    \A n \in 1..Len(links) :
        \E m \in 1..Len(html) :
            /\ m < pos
            /\ IsDownloadAnchor(html[m])
            /\ HrefValues(html[m].attrs) # <<>>
            /\ HrefValues(html[m].attrs)[Len(HrefValues(html[m].attrs))] = links[n].path

\* C10: every pack in links, pack_links and latest_packs passes the family
\* filter, and once the fold is over every accepted link of the page has its
\* family in latest_packs with a version not below its own.
C10_OnlyKeptPacksHeld ==
    /\ \A n \in 1..Len(links) : keep_this_pack(links[n])
    /\ \A n \in 1..Len(pack_links) : keep_this_pack(pack_links[n])
    /\ \A n \in 1..Len(latest_packs) : keep_this_pack(latest_packs[n].value)
    /\ pc \in {"print", "done"} =>
          LET accepted == AcceptedPacks(html)
          IN  \A n \in 1..Len(accepted) :
                  /\ HasKey(latest_packs, accepted[n].family)
                  /\ ~IntGT(accepted[n].version,
                            Lookup(latest_packs, accepted[n].family).version)

\* a run has ended on a page holding a rejected pack of a retained family with
\* a version above the retained one
C10_Witness ==
    /\ pc = "done"
    /\ LET listed == ListedPacks(html)
       IN  \E n \in 1..Len(listed) :
               /\ ~keep_this_pack(listed[n])
               /\ HasKey(latest_packs, listed[n].family)
               /\ IntGT(listed[n].version,
                        Lookup(latest_packs, listed[n].family).version)

\* the version fields of a constructed pack, as integers
Triple(pack) ==
    LET parts == Split(RSplitLast(pack.path, SLASH), DOT)
    IN  <<IntParse(parts[3]).val, IntParse(parts[4]).val, IntParse(parts[5]).val>>

\* lexicographic order of version triples
TripleGT(x, y) ==
    \/ x[1] > y[1]
    \/ x[1] = y[1] /\ x[2] > y[2]
    \/ x[1] = y[1] /\ x[2] = y[2] /\ x[3] > y[3]

\* the text is a decimal integer from 0 to 99999
IsVersionField(s) ==
    IntParse(s).ok /\ IntParse(s).val >= 0 /\ IntParse(s).val < Limb

\* the bare file name has six dot-separated fields, the third to fifth of
\* them version fields
IsPackName(path) ==
    LET parts == Split(RSplitLast(path, SLASH), DOT)
    IN  /\ Len(parts) = 6
        /\ IsVersionField(parts[3])
        /\ IsVersionField(parts[4])
        /\ IsVersionField(parts[5])

\* C4: DevicePack(path) builds a pack exactly for the names of six fields
\* whose version fields are integers from 0 to 99999, and raises for every
\* other name.
C4_PackOnlyForPackNames ==
    \A n \in 1..Len(built) : built[n].result.ok <=> IsPackName(built[n].path)

\* C5: of two constructed packs, the version of one is greater iff its
\* (major, minor, patch) is lexicographically greater, and equal triples have
\* equal versions.
C5_VersionOrdersAsTriple ==
    \A n, m \in 1..Len(built) :
        (built[n].result.ok /\ built[m].result.ok) =>
            LET p == built[n].result
                q == built[m].result
            IN  /\ IntGT(p.version, q.version) <=> TripleGT(Triple(p), Triple(q))
                /\ Triple(p) = Triple(q) => p.version = q.version

AcceptedPrefixes == {P_SAM, P_PIC32C, P_PIC32W, P_CEC, P_DEC, P_MEC, P_WRL}

\* C6: keep_this_pack() is true exactly when the manufacturer is Microchip,
\* the lower-cased family does not end with _tp, and it starts with one of
\* the seven accepted prefixes.
C6_FilterIsWhitelist ==
    \A n \in 1..Len(verdicts) :
        verdicts[n].keep <=>
            /\ verdicts[n].pack.manufacturer = MICROCHIP
            /\ ~EndsWith(Lower(verdicts[n].pack.family), S_TP)
            /\ \E p \in AcceptedPrefixes : StartsWith(Lower(verdicts[n].pack.family), p)

\* the filter has rejected a Microchip tool pack whose family starts with an
\* accepted prefix
C6_Witness ==
    \E n \in 1..Len(verdicts) :
        /\ ~verdicts[n].keep
        /\ verdicts[n].pack.manufacturer = MICROCHIP
        /\ EndsWith(Lower(verdicts[n].pack.family), S_TP)
        /\ \E p \in AcceptedPrefixes : StartsWith(Lower(verdicts[n].pack.family), p)

=============================================================================
